---- MODULE Spec2Model ----
(***************************************************************************)
(* micrograd: the scalar autograd engine (micrograd/engine.py, class       *)
(* Value) and the gradient reset of micrograd/nn.py (Module.zero_grad).    *)
(*                                                                         *)
(* The graph is the list of Value objects in creation order; a Value is    *)
(* referred to by its position in that list.  Numbers are exact rationals  *)
(* <<numerator, denominator>> in lowest terms: Python's int and float      *)
(* arithmetic without rounding.  An operation that raises leaves its       *)
(* exception's name in last.err and keeps whatever it had written before   *)
(* the raise.                                                              *)
(***************************************************************************)
EXTENDS Integers, Sequences, FiniteSets

VARIABLES
    nodes,   \* the Value objects: data, _prev, _op and the closure of _backward
    grad,    \* grad[i]: the grad attribute of Value i
    last,    \* the last call made and how it ended
    roots,   \* the Values backward() has been called on so far
    calls    \* the number of calls made so far

vars == <<nodes, grad, last, roots, calls>>

\* ---------------------------------------------------------------- bounds
\* Spec: few Values, more calls
MaxNodes == 3
MaxCalls == 5
\* SpecWide: more Values, fewer calls
WideNodes == 4
WideCalls == 4

\* numbers a caller passes as data or as a scalar operand
Vals == {-1, 0, 2}
\* numbers a caller passes as the exponent of **
Exps == {-1, 0, 2}

\* ------------------------------------------------------------ arithmetic
Abs(x) == IF x < 0 THEN -x ELSE x

RECURSIVE GCD(_, _)
GCD(a, b) == IF b = 0 THEN a ELSE GCD(b, a % b)

\* the number n/d, d # 0, in lowest terms with a positive denominator
Norm(n, d) ==
    LET g == GCD(Abs(n), Abs(d))
        s == IF d < 0 THEN -1 ELSE 1
    IN  <<(s * n) \div g, (s * d) \div g>>

R(n) == <<n, 1>>
Zero == R(0)
One == R(1)

Plus(x, y) == Norm(x[1] * y[2] + y[1] * x[2], x[2] * y[2])
Times(x, y) == Norm(x[1] * y[1], x[2] * y[2])
Positive(x) == x[1] > 0
Negative(x) == x[1] < 0

\* x ** n is defined unless x is 0 and n is negative (ZeroDivisionError)
PowDefined(x, n) == ~(x[1] = 0 /\ n < 0)

RECURSIVE Power(_, _)
Power(x, n) ==
    IF n = 0 THEN One
    ELSE IF n < 0 THEN Power(<<x[2], x[1]>>, -n)
    ELSE Times(Norm(x[1], x[2]), Power(x, n - 1))

\* ------------------------------------------------------ node construction
Ids(ns) == 1 .. Len(ns)

\* an operand given by the caller: a Value, or a plain number
Ref(i) == [isValue |-> TRUE, id |-> i, num |-> Zero]
Num(x) == [isValue |-> FALSE, id |-> 0, num |-> x]

\* set(_children) in the order the set is iterated: no duplicates, and the
\* order of two distinct elements is whatever their hashes make it
set(children, fl) ==
    IF Len(children) = 2 /\ children[1] = children[2] THEN <<children[1]>>
    ELSE IF Len(children) = 2 /\ fl THEN <<children[2], children[1]>>
    ELSE children

\* (mutant) the new Value takes the slot of the newest one
NewId_reuse(st) == IF Len(st.nodes) = 0 THEN 1 ELSE Len(st.nodes)

\* the slot a newly constructed Value takes in the list of objects
NewId(st) == Len(st.nodes) + 1

\* Value.__init__, with the closure that the operation then stores in
\* out._backward: self, other and, for **, the exponent
Value(st, data, children, op, self, other, exp) ==
    LET new == [data |-> data, prev |-> children, op |-> op,
                self |-> self, other |-> other, exp |-> exp]
        id == NewId(st)
    IN  [nodes |-> [i \in 1 .. (IF id > Len(st.nodes) THEN id ELSE Len(st.nodes)) |->
                        IF i = id THEN new ELSE st.nodes[i]],
         grad |-> [i \in 1 .. (IF id > Len(st.grad) THEN id ELSE Len(st.grad)) |->
                        IF i = id THEN Zero ELSE st.grad[i]],
         out |-> id,
         err |-> "none"]

\* other if isinstance(other, Value) else Value(other)
wrap(st, other) ==
    IF other.isValue THEN [st EXCEPT !.out = other.id]
    ELSE Value(st, other.num, <<>>, "", 0, 0, 0)

\* (mutant) the sum is also written into self.data, as an in-place += would
add_inplace(st, self, other, fl) ==
    LET s1 == wrap(st, other)
        o == s1.out
        sum == Plus(s1.nodes[self].data, s1.nodes[o].data)
        r == Value(s1, sum, set(<<self, o>>, fl), "+", self, o, 0)
    IN  [r EXCEPT !.nodes[self].data = sum]

add(st, self, other, fl) ==
    LET s1 == wrap(st, other)
        o == s1.out
    IN  Value(s1, Plus(s1.nodes[self].data, s1.nodes[o].data),
              set(<<self, o>>, fl), "+", self, o, 0)

mul(st, self, other, fl) ==
    LET s1 == wrap(st, other)
        o == s1.out
    IN  Value(s1, Times(s1.nodes[self].data, s1.nodes[o].data),
              set(<<self, o>>, fl), "*", self, o, 0)

\* (mutant) no isinstance assertion: the exponent's data is used
pow_unchecked(st, self, other) ==
    LET n == IF other.isValue THEN st.nodes[other.id].data[1] ELSE other.num[1]
    IN  IF ~PowDefined(st.nodes[self].data, n)
        THEN [st EXCEPT !.err = "ZeroDivisionError"]
        ELSE Value(st, Power(st.nodes[self].data, n), <<self>>, "**", self, 0, n)

\* (mutant) a guard for the undefined power: the result is a Value of data 0
pow_guarded(st, self, other) ==
    IF other.isValue THEN [st EXCEPT !.err = "AssertionError"]
    ELSE IF ~PowDefined(st.nodes[self].data, other.num[1])
         THEN Value(st, Zero, <<self>>, "**", self, 0, other.num[1])
    ELSE Value(st, Power(st.nodes[self].data, other.num[1]),
               <<self>>, "**", self, 0, other.num[1])

\* other is a Value or an int (the exponents of the model are ints)
pow(st, self, other) ==
    IF other.isValue THEN [st EXCEPT !.err = "AssertionError"]
    ELSE IF ~PowDefined(st.nodes[self].data, other.num[1])
         THEN [st EXCEPT !.err = "ZeroDivisionError"]
    ELSE Value(st, Power(st.nodes[self].data, other.num[1]),
               <<self>>, "**", self, 0, other.num[1])

relu(st, self) ==
    Value(st, IF Negative(st.nodes[self].data) THEN Zero ELSE st.nodes[self].data,
          <<self>>, "ReLU", self, 0, 0)

\* -self
neg(st, self, fl) == mul(st, self, Num(R(-1)), fl)

\* self - other: self + (-other), where -other is Value.__neg__ for a Value
\* and the number's own negation otherwise
sub(st, self, other, f1, f2) ==
    IF other.isValue
    THEN LET s1 == neg(st, other.id, f1)
         IN  add(s1, self, Ref(s1.out), f2)
    ELSE add(st, self, Num(Times(R(-1), other.num)), f2)

\* self / other: self * other**-1, where ** is Value.__pow__ for a Value and
\* the number's own power otherwise
truediv(st, self, other, fl) ==
    IF other.isValue
    THEN LET s1 == pow(st, other.id, Num(R(-1)))
         IN  IF s1.err # "none" THEN s1 ELSE mul(s1, self, Ref(s1.out), fl)
    ELSE IF ~PowDefined(other.num, -1) THEN [st EXCEPT !.err = "ZeroDivisionError"]
    ELSE mul(st, self, Num(Power(other.num, -1)), fl)

\* --------------------------------------------------------------- backward
\* build_topo(v) of Value.backward; tv holds the topo list and the visited set
RECURSIVE build_topo(_, _, _), visit_children(_, _, _, _)
build_topo(ns, v, tv) ==
    IF v \in tv.visited THEN tv
    ELSE LET t1 == [tv EXCEPT !.visited = @ \cup {v}]
             t2 == visit_children(ns, ns[v].prev, 1, t1)
         IN  [t2 EXCEPT !.topo = Append(@, v)]

\* for child in v._prev: build_topo(child)
visit_children(ns, cs, k, tv) ==
    IF k > Len(cs) THEN tv
    ELSE visit_children(ns, cs, k + 1, build_topo(ns, cs[k], tv))

\* (mutant) target.grad = amount
accumulate_assign(g, target, amount) == [g EXCEPT ![target] = amount]

\* target.grad += amount
accumulate(g, target, amount) == [g EXCEPT ![target] = Plus(@, amount)]

\* the _backward closure of + : self.grad += out.grad; other.grad += out.grad
add_backward(ns, g, out) ==
    LET g1 == accumulate(g, ns[out].self, g[out])
    IN  accumulate(g1, ns[out].other, g1[out])

\* the _backward closure of *
mul_backward(ns, g, out) ==
    LET n == ns[out]
        g1 == accumulate(g, n.self, Times(ns[n.other].data, g[out]))
    IN  accumulate(g1, n.other, Times(ns[n.self].data, g1[out]))

\* the _backward closure of ** ; self.data ** (other - 1) is evaluated first
pow_backward(ns, g, out) ==
    LET n == ns[out]
    IN  accumulate(g, n.self,
            Times(Times(R(n.exp), Power(ns[n.self].data, n.exp - 1)), g[out]))

\* (mutant) the gate is self.data >= 0
relu_backward_ge(ns, g, out) ==
    accumulate(g, ns[out].self,
        Times(IF Negative(ns[ns[out].self].data) THEN Zero ELSE One, g[out]))

\* the _backward closure of relu: self.grad += (out.data > 0) * out.grad
relu_backward(ns, g, out) ==
    accumulate(g, ns[out].self,
        Times(IF Positive(ns[out].data) THEN One ELSE Zero, g[out]))

\* v._backward(): the closure the operation stored, lambda: None for a leaf
call_backward(ns, g, v) ==
    LET n == ns[v]
    IN  IF n.op = "+" THEN [grad |-> add_backward(ns, g, v), err |-> "none"]
        ELSE IF n.op = "*" THEN [grad |-> mul_backward(ns, g, v), err |-> "none"]
        ELSE IF n.op = "**" THEN
            IF PowDefined(ns[n.self].data, n.exp - 1)
            THEN [grad |-> pow_backward(ns, g, v), err |-> "none"]
            ELSE [grad |-> g, err |-> "ZeroDivisionError"]
        ELSE IF n.op = "ReLU" THEN [grad |-> relu_backward(ns, g, v), err |-> "none"]
        ELSE [grad |-> g, err |-> "none"]

\* for v in reversed(topo): v._backward()   (k runs from Len(topo) down to 1;
\* ex.ran lists the Values whose _backward was called, in call order)
RECURSIVE run_reversed(_, _, _, _)
run_reversed(ns, topo, k, ex) ==
    IF k = 0 \/ ex.err # "none" THEN ex
    ELSE LET r == call_backward(ns, ex.grad, topo[k])
         IN  run_reversed(ns, topo, k - 1,
                 [grad |-> r.grad, ran |-> Append(ex.ran, topo[k]), err |-> r.err])

\* the seed: self.grad = 1
seed(g, self) == [g EXCEPT ![self] = One]

\* (mutant) the rules of all Values are run, newest first, not only of those
\* self reaches
backward_all(ns, g, self) ==
    LET all == [k \in 1 .. Len(ns) |-> k]
        ex == run_reversed(ns, all, Len(all),
                  [grad |-> seed(g, self), ran |-> <<>>, err |-> "none"])
    IN  [grad |-> ex.grad, topo |-> all, ran |-> ex.ran, err |-> ex.err]

\* Value.backward
backward(ns, g, self) ==
    LET tv == build_topo(ns, self, [topo |-> <<>>, visited |-> {}])
        ex == run_reversed(ns, tv.topo, Len(tv.topo),
                  [grad |-> seed(g, self), ran |-> <<>>, err |-> "none"])
    IN  [grad |-> ex.grad, topo |-> tv.topo, ran |-> ex.ran, err |-> ex.err]

\* (mutant) every grad is reset
zero_grad_all(g, ps) == [i \in DOMAIN g |-> Zero]

\* Module.zero_grad: for p in self.parameters(): p.grad = 0
zero_grad(g, ps) == [i \in DOMAIN g |-> IF i \in ps THEN Zero ELSE g[i]]

\* the Values reachable from v along _prev, v included
RECURSIVE Reach(_, _)
Reach(ns, v) ==
    {v} \cup UNION {Reach(ns, ns[v].prev[k]) : k \in 1 .. Len(ns[v].prev)}

\* ------------------------------------------------------------------ state
Here == [nodes |-> nodes, grad |-> grad, out |-> 0, err |-> "none"]

NoCall == [op |-> "init", arg |-> 0, other |-> Ref(0), ps |-> {}, err |-> "none", out |-> 0,
           topo |-> <<>>, ran |-> <<>>, clean |-> FALSE, again |-> FALSE,
           dirty |-> FALSE]

Init ==
    /\ nodes = <<>>
    /\ grad = <<>>
    /\ last = NoCall
    /\ roots = {}
    /\ calls = 0

Operands == {Ref(j) : j \in Ids(nodes)} \cup {Num(R(x)) : x \in Vals}

\* the lists a module's parameters() returns: the Values an expression is
\* made of.  A list with no grad to reset (Module's own empty list, or Values
\* whose grads are all 0) makes zero_grad a step that changes nothing, and is
\* left out.
ParamSets ==
    {ps \in {Reach(nodes, v) : v \in Ids(nodes)} : \E p \in ps : grad[p] # Zero}

\* a construction call that ended in state r
Built(name, self, other, r, mn, mc) ==
    /\ calls < mc
    /\ Len(r.nodes) <= mn
    /\ calls' = calls + 1
    /\ nodes' = r.nodes
    /\ grad' = r.grad
    /\ last' = [NoCall EXCEPT !.op = name, !.arg = self, !.other = other,
                              !.err = r.err,
                              !.out = IF r.err = "none" THEN r.out ELSE 0]
    /\ UNCHANGED roots

\* Value(x)
Leaf(mn, mc) ==
    \E x \in Vals :
        Built("Value", 0, Ref(0), Value(Here, R(x), <<>>, "", 0, 0, 0), mn, mc)

\* self + other, other + self
Add(mn, mc) ==
    \E self \in Ids(nodes), other \in Operands, fl \in BOOLEAN :
        Built("add", self, other, add(Here, self, other, fl), mn, mc)

\* self * other, other * self
Mul(mn, mc) ==
    \E self \in Ids(nodes), other \in Operands, fl \in BOOLEAN :
        Built("mul", self, other, mul(Here, self, other, fl), mn, mc)

\* self ** other; the isinstance check does not look at which Value the
\* exponent is, so one Value stands for them all
Pow(mn, mc) ==
    \E self \in Ids(nodes) :
        \E other \in {Ref(self)} \cup {Num(R(x)) : x \in Exps} :
            Built("pow", self, other, pow(Here, self, other), mn, mc)

\* self.relu()
Relu(mn, mc) ==
    \E self \in Ids(nodes) :
        Built("relu", self, Ref(0), relu(Here, self), mn, mc)

\* -self
Neg(mn, mc) ==
    \E self \in Ids(nodes), fl \in BOOLEAN :
        Built("neg", self, Ref(0), neg(Here, self, fl), mn, mc)

\* self - other
Sub(mn, mc) ==
    \E self \in Ids(nodes), other \in Operands, f1 \in BOOLEAN, f2 \in BOOLEAN :
        Built("sub", self, other, sub(Here, self, other, f1, f2), mn, mc)

\* self / other
TrueDiv(mn, mc) ==
    \E self \in Ids(nodes), other \in Operands, fl \in BOOLEAN :
        Built("truediv", self, other, truediv(Here, self, other, fl), mn, mc)

\* self.backward()
Backward(mc) ==
    \E self \in Ids(nodes) :
        /\ calls < mc
        /\ LET r == backward(nodes, grad, self)
           IN  /\ grad' = r.grad
               /\ last' = [NoCall EXCEPT
                              !.op = "backward", !.arg = self, !.err = r.err,
                              !.topo = r.topo, !.ran = r.ran,
                              !.clean = \A v \in Reach(nodes, self) : grad[v] = Zero,
                              !.again = self \in roots]
        /\ roots' = roots \cup {self}
        /\ calls' = calls + 1
        /\ UNCHANGED nodes

\* module.zero_grad(), ps the Values its parameters() returns
ZeroGrad(mc) ==
    \E ps \in ParamSets :
        /\ calls < mc
        /\ calls' = calls + 1
        /\ grad' = zero_grad(grad, ps)
        /\ last' = [NoCall EXCEPT !.op = "zero_grad", !.ps = ps,
                                  !.dirty = \E p \in ps : grad[p] # Zero]
        /\ UNCHANGED <<nodes, roots>>

\* any call, while the graph holds at most mn Values and fewer than mc calls
\* have been made
Call(mn, mc) ==
    \/ Leaf(mn, mc)
    \/ Add(mn, mc)
    \/ Mul(mn, mc)
    \/ Pow(mn, mc)
    \/ Relu(mn, mc)
    \/ Neg(mn, mc)
    \/ Sub(mn, mc)
    \/ TrueDiv(mn, mc)
    \/ Backward(mc)
    \/ ZeroGrad(mc)

Next == Call(MaxNodes, MaxCalls)

NextWide == Call(WideNodes, WideCalls)

Spec == Init /\ [][Next]_vars

SpecWide == Init /\ [][NextWide]_vars

\* ------------------------------------------------------------ properties
Constructors == {"Value", "add", "mul", "pow", "relu", "neg", "sub", "truediv"}

\* a step of the program (every call counts one)
Step == calls' = calls + 1

Reverse(sq) == [k \in 1 .. Len(sq) |-> sq[Len(sq) + 1 - k]]

Range(sq) == {sq[k] : k \in 1 .. Len(sq)}

\* the rules of the last backward() that ran to their end
Completed(l) ==
    IF l.err = "none" THEN Range(l.ran)
    ELSE {l.ran[k] : k \in 1 .. Len(l.ran) - 1}

\* d(x ** n)/dx
PowDeriv(x, n) == IF n = 0 THEN Zero ELSE Times(R(n), Power(x, n - 1))

\* the partial derivative of Value root with respect to Value v: the sum,
\* over the paths from v to root, of the products of the local derivatives
RECURSIVE D(_, _, _)
D(ns, root, v) ==
    LET n == ns[root]
    IN  IF root = v THEN One
        ELSE IF n.op = "+" THEN Plus(D(ns, n.self, v), D(ns, n.other, v))
        ELSE IF n.op = "*" THEN
            Plus(Times(ns[n.other].data, D(ns, n.self, v)),
                 Times(ns[n.self].data, D(ns, n.other, v)))
        ELSE IF n.op = "**" THEN
            Times(PowDeriv(ns[n.self].data, n.exp), D(ns, n.self, v))
        ELSE IF n.op = "ReLU" THEN
            (IF Positive(ns[n.self].data) THEN D(ns, n.self, v) ELSE Zero)
        ELSE Zero

\* what the rule of consumer c hands to operand v, given c's grad gc
Local(ns, c, v, gc) ==
    LET n == ns[c]
        as_self ==
            IF n.self # v THEN Zero
            ELSE IF n.op = "+" THEN gc
            ELSE IF n.op = "*" THEN Times(ns[n.other].data, gc)
            ELSE IF n.op = "**" THEN
                Times(Times(R(n.exp), Power(ns[n.self].data, n.exp - 1)), gc)
            ELSE IF n.op = "ReLU" THEN (IF Positive(n.data) THEN gc ELSE Zero)
            ELSE Zero
        as_other ==
            IF n.other # v THEN Zero
            ELSE IF n.op = "+" THEN gc
            ELSE IF n.op = "*" THEN Times(ns[n.self].data, gc)
            ELSE Zero
    IN  Plus(as_self, as_other)

RECURSIVE Sum(_, _, _, _)
Sum(ns, g, cs, v) ==
    IF cs = {} THEN Zero
    ELSE LET c == CHOOSE x \in cs : TRUE
         IN  Plus(Local(ns, c, v, g[c]), Sum(ns, g, cs \ {c}, v))

\* C1: on a graph no backward pass has run on, backward(root) returns and
\* leaves in every Value reachable from root the exact partial derivative of
\* root with respect to it, summed over all paths.
C1_BackwardExact ==
    (last.op = "backward" /\ roots = {last.arg} /\ ~last.again) =>
        /\ last.err = "none"
        /\ \A v \in Reach(nodes, last.arg) : grad[v] = D(nodes, last.arg, v)

\* The same with the passes that raise left out.
ExactWhenReturns ==
    (last.op = "backward" /\ last.clean /\ last.err = "none") =>
        \A v \in Reach(nodes, last.arg) : grad[v] = D(nodes, last.arg, v)

\* C2: backward(root) changes the grad of a Value other than root only by
\* adding to the grad it held before the call what the rules run in this pass
\* hand to it; nothing is reset.
C2_Accumulates ==
    [][(Step /\ last'.op = "backward") =>
        \A v \in Reach(nodes, last'.arg) \ {last'.arg} :
            grad'[v] = Plus(grad[v], Sum(nodes, grad', Completed(last'), v))]_vars

\* y = a + b (or y = a + a), backward(y) called twice with no reset between
C2_Witness ==
    /\ last.op = "backward" /\ last.again /\ last.err = "none"
    /\ nodes[last.arg].op = "+"
    /\ nodes[nodes[last.arg].self].op = ""
    /\ nodes[nodes[last.arg].other].op = ""
    /\ nodes[last.arg].self # nodes[last.arg].other
    /\ grad[nodes[last.arg].self] = R(2)
    /\ grad[nodes[last.arg].other] = R(2)

\* C3: when every Value reachable from root has grad 0 again, whatever passes
\* ran before, backward(root) leaves in each of them the grad a single
\* backward(root) leaves on the graph as built, all grads 0.
C3_RepeatableAfterReset ==
    [][(Step /\ last'.op = "backward" /\ last'.clean) =>
        LET fresh == backward(nodes, [i \in DOMAIN grad |-> Zero], last'.arg)
        IN  /\ last'.err = fresh.err
            /\ \A v \in Reach(nodes, last'.arg) : grad'[v] = fresh.grad[v]]_vars

\* a second backward(root) after a reset, with a Value outside the reset that
\* still holds a grad
C3_Witness ==
    /\ last.op = "backward" /\ last.clean /\ last.again
    /\ \E v \in Ids(nodes) \ Reach(nodes, last.arg) : grad[v] # Zero

\* C4: zero_grad sets the grad of each of the module's parameters to 0 and
\* changes nothing else; a second call changes nothing.
C4_ZeroGrad ==
    [][(Step /\ last'.op = "zero_grad") =>
        /\ \A p \in last'.ps : grad'[p] = Zero
        /\ \A v \in Ids(nodes) \ last'.ps : grad'[v] = grad[v]
        /\ DOMAIN grad' = DOMAIN grad
        /\ nodes' = nodes
        /\ zero_grad(grad', last'.ps) = grad']_vars

C4_Witness ==
    /\ last.op = "zero_grad" /\ last.dirty
    /\ \E v \in Ids(nodes) \ last.ps : grad[v] # Zero

\* C5: ** with a Value as the exponent fails at the call (the isinstance
\* assertion), creates no Value and changes no data, grad or operand set.
C5_PowRejectsValue ==
    [][(Step /\ last'.op = "pow" /\ last'.other.isValue) =>
        /\ last'.err = "AssertionError"
        /\ nodes' = nodes
        /\ grad' = grad]_vars

C5_Witness ==
    /\ last.op = "pow" /\ last.other.isValue /\ last.err = "AssertionError"
    /\ \E v \in Ids(nodes) : grad[v] # Zero

\* the divisor of the last call, when it is a Value whose data is 0
ByZeroValue(l, ns) ==
    l.op = "truediv" /\ l.other.isValue /\ ns[l.other.id].data = Zero

\* C6 as stated: a / b with b.data == 0 returns a new Value.
C6_DivByZeroReturns ==
    ByZeroValue(last, nodes) => (last.err = "none" /\ last.out # 0)

\* C6 as the code has it: a / b with b.data == 0 raises ZeroDivisionError in
\* b ** -1, before any Value is created, and changes nothing.
C6_DivByZeroRaises ==
    [][(Step /\ ByZeroValue(last', nodes)) =>
        /\ last'.err = "ZeroDivisionError"
        /\ nodes' = nodes
        /\ grad' = grad]_vars

C6_Witness ==
    /\ ByZeroValue(last, nodes) /\ last.err = "ZeroDivisionError"
    /\ \E v \in Ids(nodes) : grad[v] # Zero

\* C7: relu(a).data is a.data when a.data > 0 and 0 otherwise; backward adds
\* out.grad to a.grad when out.data > 0 and adds nothing otherwise.
C7_Relu ==
    /\ [](\A v \in Ids(nodes) : nodes[v].op = "ReLU" =>
            nodes[v].data = IF Positive(nodes[nodes[v].self].data)
                            THEN nodes[nodes[v].self].data ELSE Zero)
    /\ [][(Step /\ last'.op = "backward" /\ nodes[last'.arg].op = "ReLU") =>
            LET out == last'.arg
                a == nodes[out].self
            IN  grad'[a] = Plus(grad[a], IF Positive(nodes[out].data)
                                         THEN grad'[out] ELSE Zero)]_vars

\* x = 0, y = relu(x), backward(y): y.data = 0, y.grad = 1, x.grad = 0
C7_Witness ==
    /\ last.op = "backward" /\ last.clean /\ nodes[last.arg].op = "ReLU"
    /\ nodes[nodes[last.arg].self].data = Zero
    /\ nodes[last.arg].data = Zero
    /\ grad[last.arg] = One
    /\ grad[nodes[last.arg].self] = Zero

\* C8: no step changes the data, the op or the operands of a Value; a
\* constructor changes no grad and gives each new Value grad 0; backward(root)
\* changes the grad of no Value that root does not reach.
C8_Frame ==
    [][Step =>
        /\ Len(nodes') >= Len(nodes)
        /\ \A v \in Ids(nodes) : nodes'[v] = nodes[v]
        /\ last'.op \in Constructors =>
               /\ \A v \in Ids(nodes) : grad'[v] = grad[v]
               /\ \A v \in Ids(nodes') \ Ids(nodes) : grad'[v] = Zero
        /\ last'.op = "backward" =>
               \A v \in Ids(nodes) \ Reach(nodes, last'.arg) : grad'[v] = grad[v]]_vars

\* x - y of two Values that already hold grads: three new Values
C8_Witness ==
    /\ last.op = "sub" /\ last.other.isValue /\ last.err = "none"
    /\ grad[last.arg] # Zero
    /\ grad[last.other.id] # Zero
    /\ grad[last.out] = Zero

\* the order holds exactly the Values root reaches, each once, operands first
IsTopo(ns, root, topo) ==
    /\ Range(topo) = Reach(ns, root)
    /\ \A j, k \in 1 .. Len(topo) : j # k => topo[j] # topo[k]
    /\ \A k \in 1 .. Len(topo) :
           \A c \in Range(ns[topo[k]].prev) :
               \E j \in 1 .. k - 1 : topo[j] = c

\* C9: the order backward builds is topological, and backward runs the rule
\* of every Value in it, once each, in the reverse of that order.
C9_TopoAndRun ==
    last.op = "backward" =>
        /\ IsTopo(nodes, last.arg, last.topo)
        /\ last.ran = Reverse(last.topo)
        /\ last.err = "none"

\* The order alone, and the rules run up to the one that raises.
TopoOrder ==
    last.op = "backward" =>
        /\ IsTopo(nodes, last.arg, last.topo)
        /\ last.ran = SubSeq(Reverse(last.topo), 1, Len(last.ran))
        /\ (last.err = "none" => last.ran = Reverse(last.topo))

\* C10: every operand of a Value was created before it, and the operands of a
\* Value never change; so no Value reaches itself.
C10_Acyclic ==
    /\ [](\A v \in Ids(nodes) :
            /\ Range(nodes[v].prev) \subseteq 1 .. (v - 1)
            /\ nodes[v].self \in 0 .. (v - 1)
            /\ nodes[v].other \in 0 .. (v - 1))
    /\ [][\A v \in Ids(nodes) :
            v \in Ids(nodes') /\ nodes'[v].prev = nodes[v].prev]_vars

\* a graph of four Values, one of them with two distinct operands, after a
\* backward pass
C10_Witness ==
    /\ roots # {}
    /\ Len(nodes) = 4
    /\ \E v \in Ids(nodes) : Len(nodes[v].prev) = 2

====
